---- MODULE Spec2Model ----
(***************************************************************************)
(* Constellation Viewer (streamlit_constellation_map.py): a Streamlit      *)
(* script with three tabs.  Every user interaction reruns the script from  *)
(* top to bottom; st.session_state survives between runs.  An action of    *)
(* this module is one script run triggered by one interaction.             *)
(*                                                                         *)
(* Distances are in hundredths of an astronomical unit (1.0 AU = 100),     *)
(* coordinates in whole degrees, so that the arithmetic of the source is   *)
(* exact integer arithmetic here.                                          *)
(***************************************************************************)
EXTENDS Integers, Sequences, FiniteSets, TLC

VARIABLES
    planet_pos_df,      \* st.session_state.planet_pos_df ("present" = key in session state)
    pos_out,            \* the response the "Get Positions" handler got in the last run, and what it showed
    pos_view,           \* what Part B (the polar plot section) rendered in the last run
    latitude,           \* st.session_state.latitude
    longitude,          \* st.session_state.longitude
    selected_place_id,  \* st.session_state.selected_place_id
    sc_lat, sc_lng,     \* star-chart number inputs of lines 300 and 302 (no key)
    mp_lat, mp_lng,     \* moon-phase number inputs of lines 356 and 358 (key given)
    key_is_identity,    \* whether the installed Streamlit identifies a keyed widget by its key alone
    loc_out,            \* what the last run did in the location form
    star_out,           \* what the last run of the "Generate Star Map" handler showed
    mp_format, mp_moonStyle, mp_backgroundStyle, mp_orientation,   \* moon-phase selectboxes
    mp_backgroundColor, \* the colour picker's value, "None" while it is not rendered
    moon_out            \* what the last run of the "Get Moon Phase" handler showed

posVars == <<planet_pos_df, pos_out, pos_view>>
sessionVars == <<latitude, longitude, selected_place_id>>
widgetVars == <<sc_lat, sc_lng, mp_lat, mp_lng>>
moonWidgetVars == <<mp_format, mp_moonStyle, mp_backgroundStyle, mp_orientation,
                    mp_backgroundColor>>

vars == <<planet_pos_df, pos_out, pos_view, latitude, longitude, selected_place_id,
          sc_lat, sc_lng, mp_lat, mp_lng, key_is_identity, loc_out, star_out,
          mp_format, mp_moonStyle, mp_backgroundStyle, mp_orientation,
          mp_backgroundColor, moon_out>>

----------------------------------------------------------------------------
(* Bounds and input domains *)

\* Longest rows list of a positions payload.
MaxRows == 2

\* Body names a payload row may carry.
Names == {"Earth", "Mars"}

\* Final HTTP statuses a provider answers with: 200, another 2xx, a 3xx the client does
\* not follow (300, 304, a redirect without Location) and a 5xx.
StatusCodes == {200, 201, 300, 500}

\* Longest predictions list of an autocomplete payload, longest results list of a
\* geocode payload.
MaxPredictions == 2
MaxResults == 2

\* Slider arguments of line 178: min 1.0 AU, default capped at 10.0 AU.
ZoomMin == 100
ZoomCap == 1000

----------------------------------------------------------------------------
(* Tab 1: planetary positions *)

\* A Python float as far as the script computes with it: a finite number (v, in
\* hundredths), positive or negative infinity, or NaN.  float() accepts "nan", "inf",
\* "-inf" and overflowing literals such as "1e400".
Num(n) == [k |-> "num", v |-> n]
PosInf == [k |-> "inf", v |-> 0]
NegInf == [k |-> "ninf", v |-> 0]
NaN == [k |-> "nan", v |-> 0]

\* A row of pos_data["data"]["table"]["rows"]: the entry name and the cell's distance
\* from Earth as float() reads it.  valid = FALSE stands for a row the loop body cannot
\* read: a missing key, an empty cells list, a text float() rejects.  The rows cover a
\* body more than 10 AU from another, rows of one name, and the non-finite distances
\* float() accepts.
RawRows ==
    { [name |-> "Earth", au |-> Num(100),  valid |-> TRUE],
      [name |-> "Mars",  au |-> Num(1300), valid |-> TRUE],
      [name |-> "Mars",  au |-> NaN,       valid |-> TRUE],
      [name |-> "Mars",  au |-> PosInf,    valid |-> TRUE],
      [name |-> "Mars",  au |-> Num(1300), valid |-> FALSE] }

SeqsUpTo(S, n) == UNION {[1..k -> S] : k \in 0..n}

\* The rows lists explored: the loop stops at the first row it cannot read, so such a
\* row is the last one of its list.
RawTables ==
    {t \in SeqsUpTo(RawRows, MaxRows) : \A i \in DOMAIN t : ~t[i].valid => i = Len(t)}

\* Outcome of requests.get(PLANETARY_POSITIONS_URL, ...): the call raises (connection
\* error, timeout) or returns a response with a status and a body; json = FALSE is a
\* body that pos_res.json() cannot decode or that lacks data.table.rows.
PosNetworkError == [kind |-> "exception", status |-> 0, json |-> FALSE, rows |-> <<>>]
\* A 200 response carries any body; a response with another status carries an
\* undecodable body or a table of at most one row.
PosResponses ==
    {h \in [kind : {"response"}, status : StatusCodes, json : BOOLEAN, rows : RawTables] :
        /\ ~h.json => h.rows = <<>>
        /\ h.status # 200 => Len(h.rows) <= 1}
PosOutcomes == {PosNetworkError} \cup PosResponses

\* requests.Response.raise_for_status: raises HTTPError for 4xx and 5xx.
raise_for_status(status) == status >= 400 /\ status < 600

\* The for loop of lines 131-147: one dict per row, in provider order; the first
\* unreadable row raises and leaves the loop.
RECURSIVE ExtractRows(_, _)
ExtractRows(rows, planet_data) ==
    IF rows = <<>> THEN [raised |-> FALSE, planet_data |-> planet_data]
    ELSE IF ~Head(rows).valid THEN [raised |-> TRUE, planet_data |-> planet_data]
    ELSE ExtractRows(Tail(rows),
            Append(planet_data, [name |-> Head(rows).name, dist_au |-> Head(rows).au]))

\* The try block of lines 123-152: raised = TRUE when control reaches the except
\* clause before the assignment of line 150.
FetchPositions(h) ==
    IF h.kind = "exception" THEN [raised |-> TRUE, planet_data |-> <<>>]
    ELSE IF raise_for_status(h.status) THEN [raised |-> TRUE, planet_data |-> <<>>]
    ELSE IF ~h.json THEN [raised |-> TRUE, planet_data |-> <<>>]
    ELSE ExtractRows(h.rows, <<>>)

NoTable == [present |-> FALSE, rows |-> <<>>]

\* Line 150: the session entry after the handler ran on outcome h.
StoreTable(old, h) ==
    LET r == FetchPositions(h)
    IN  IF r.raised THEN old ELSE [present |-> TRUE, rows |-> r.planet_data]

Abs(x) == IF x < 0 THEN -x ELSE x

\* Float subtraction: NaN if an operand is NaN or both are the same infinity.
FSub(a, b) ==
    IF a.k = "nan" \/ b.k = "nan" THEN NaN
    ELSE IF a.k = "num" /\ b.k = "num" THEN Num(a.v - b.v)
    ELSE IF a.k = "num" THEN (IF b.k = "inf" THEN NegInf ELSE PosInf)
    ELSE IF b.k = "num" THEN a
    ELSE IF a.k = b.k THEN NaN
    ELSE a

\* Float absolute value.
FAbs(a) ==
    IF a.k = "num" THEN Num(Abs(a.v))
    ELSE IF a.k = "ninf" THEN PosInf
    ELSE a

\* Float a < b: FALSE whenever an operand is NaN.
FLt(a, b) ==
    IF a.k = "nan" \/ b.k = "nan" THEN FALSE
    ELSE IF a.k = "num" /\ b.k = "num" THEN a.v < b.v
    ELSE IF a.k = b.k THEN FALSE
    ELSE a.k = "ninf" \/ b.k = "inf"

\* Float a <= b: FALSE whenever an operand is NaN.
FLe(a, b) == a.k # "nan" /\ b.k # "nan" /\ ~FLt(b, a)

\* Series.max() of line 176: the largest value, NaN entries skipped.
RECURSIVE SeqMax(_)
SeqMax(s) ==
    IF Len(s) = 1 THEN s[1]
    ELSE LET m == SeqMax(Tail(s))
         IN  IF s[1].k = "nan" THEN m
             ELSE IF m.k = "nan" THEN s[1]
             ELSE IF FLt(m, s[1]) THEN s[1] ELSE m

\* Python's min(a, b): b if b < a, else a.
Min2(a, b) == IF FLt(b, a) THEN b ELSE a

NameSet(rows) == {rows[i].name : i \in DOMAIN rows}

\* Line 172: df.loc[df["name"] == subject, "dist_au"].iloc[0], the first matching row.
SubjectAu(rows, subject) ==
    rows[CHOOSE i \in DOMAIN rows :
            /\ rows[i].name = subject
            /\ \A j \in DOMAIN rows : rows[j].name = subject => i <= j].dist_au

\* AbsDifference without .abs().
AbsDifference_Signed(rows, subject_au) ==
    [i \in DOMAIN rows |-> FSub(rows[i].dist_au, subject_au)]

\* Line 173: df["relative_au"] = (df["dist_au"] - subject_au).abs()
AbsDifference(rows, subject_au) ==
    [i \in DOMAIN rows |-> FAbs(FSub(rows[i].dist_au, subject_au))]

\* Line 174: df.loc[df["name"] == subject, "relative_au"] = 0
ZeroSubject(rows, relative_au, subject) ==
    [i \in DOMAIN rows |-> IF rows[i].name = subject THEN Num(0) ELSE relative_au[i]]

\* Lines 172-174.
RelativeAu(rows, subject) ==
    ZeroSubject(rows, AbsDifference(rows, SubjectAu(rows, subject)), subject)

\* Lines 176-179: the arguments handed to st.slider (min, max, default value).
SliderArgs(relative_au) ==
    LET max_r == SeqMax(relative_au)
    IN  [min_value |-> Num(ZoomMin), max_value |-> max_r,
         value |-> Min2(Num(ZoomCap), max_r)]

\* A range st.slider can show as given: the bounds are finite and the default lies
\* between them.
SliderInRange(args) ==
    /\ args.max_value.k = "num"
    /\ FLe(args.min_value, args.value)
    /\ FLe(args.value, args.max_value)

NoSlider == [min_value |-> Num(0), max_value |-> Num(0), value |-> Num(0)]

\* Lines 159-239, the part of the run after the button handler.
\*   no entry in session state      -> st.info("Please retrieve planetary positions first.")
\*   an entry holding DataFrame([]) -> df["name"] raises KeyError (the frame has no columns);
\*                                     the exception is not caught and ends the run
\*   otherwise                      -> relative distances, then st.slider, then the plot
\* Given an infinite bound or a range the default lies outside of, st.slider either raises (the exception is
\* not caught and ends the run) or widens the range, depending on the Streamlit
\* installed: slider_raises says which.
RenderPartB(df, subject, slider_raises) ==
    IF ~df.present THEN
        [kind |-> "empty_state", subject |-> "", relative_au |-> <<>>, slider |-> NoSlider]
    ELSE IF df.rows = <<>> THEN
        [kind |-> "exception", subject |-> "", relative_au |-> <<>>, slider |-> NoSlider]
    ELSE
        LET rel == RelativeAu(df.rows, subject)
        IN  IF slider_raises /\ ~SliderInRange(SliderArgs(rel)) THEN
                [kind |-> "slider_exception", subject |-> subject, relative_au |-> rel,
                 slider |-> SliderArgs(rel)]
            ELSE
                [kind |-> "plot", subject |-> subject, relative_au |-> rel,
                 slider |-> SliderArgs(rel)]

\* An uncaught exception of Part B (line 169 or line 177) ended the run in tab 1.
PartBRaised(view) == view.kind \in {"exception", "slider_exception"}

\* What st.selectbox("Center Planet", df["name"].tolist()) can report: one of its options.
SubjectChoices(df) ==
    IF df.present /\ df.rows # <<>> THEN NameSet(df.rows) ELSE {""}

\* What is kept on record of a positions response: its status, whether the body
\* decoded, whether every row of it is readable, and the rows if they are.
PosRecord(h) ==
    LET readable == \A i \in DOMAIN h.rows : h.rows[i].valid
    IN  [kind |-> h.kind, status |-> h.status, json |-> h.json, readable |-> readable,
         rows |-> IF readable THEN h.rows ELSE <<>>]

NoHttp == [kind |-> "none", status |-> 0, json |-> FALSE, readable |-> TRUE, rows |-> <<>>]

PosShown(h) ==
    IF FetchPositions(h).raised THEN {"info", "error"} ELSE {"info", "success", "raw"}

----------------------------------------------------------------------------
(* Tab 2: location form (Google Places) *)

\* Coordinates a provider may answer with (whole degrees), and what the user types.
Locations == {[lat |-> 1, lng |-> 103], [lat |-> 35, lng |-> 139]}
UserInputs == {"", "Sing"}
EditValues == {7}

\* Items of data["predictions"]; the provider sends more fields than the two kept.
RawPredictions ==
    { [description |-> "Singapore", place_id |-> "p1", types |-> "geocode"],
      [description |-> "Singapore River", place_id |-> "p2", types |-> "geocode"] }

NoLocation == [lat |-> 0, lng |-> 0]

\* Outcome of requests.get on the autocomplete endpoint (line 42): the call raises, or
\* returns a status and a body; json = FALSE is a body res.json() cannot decode or
\* that lacks the members the code reads.
SuggestNotCalled ==
    [kind |-> "none", status |-> 0, json |-> FALSE, pstatus |-> "", predictions |-> <<>>]
SuggestNetworkError ==
    [kind |-> "exception", status |-> 0, json |-> FALSE, pstatus |-> "", predictions |-> <<>>]
\* A 200 response carries any body; another status carries an undecodable body or a
\* well-formed one (the code must not read it).
SuggestBodies ==
    {b \in [json : BOOLEAN, pstatus : {"OK", "ZERO_RESULTS"},
            predictions : SeqsUpTo(RawPredictions, MaxPredictions)] :
        /\ ~b.json => (b.pstatus = "OK" /\ b.predictions = <<>>)
        /\ b.pstatus # "OK" => b.predictions = <<>>}
SuggestErrorBodies ==
    {b \in SuggestBodies : ~b.json \/ (b.pstatus = "OK" /\ Len(b.predictions) = 1)}
SuggestResponses ==
    {[kind |-> "response", status |-> st, json |-> b.json, pstatus |-> b.pstatus,
      predictions |-> b.predictions] :
        st \in StatusCodes,
        b \in SuggestBodies}
SuggestOutcomes ==
    {SuggestNetworkError} \cup
    {h \in SuggestResponses :
        h.status # 200 =>
            [json |-> h.json, pstatus |-> h.pstatus, predictions |-> h.predictions]
                \in SuggestErrorBodies}

\* Outcome of requests.get on the place-details endpoint (line 64).
DetailsNotCalled ==
    [kind |-> "none", status |-> 0, json |-> FALSE, pstatus |-> "", location |-> NoLocation]
DetailsNetworkError ==
    [kind |-> "exception", status |-> 0, json |-> FALSE, pstatus |-> "", location |-> NoLocation]
DetailsResponses ==
    {h \in [kind : {"response"}, status : StatusCodes, json : BOOLEAN,
            pstatus : {"OK", "ZERO_RESULTS"}, location : Locations \cup {NoLocation}] :
        /\ ~h.json => (h.pstatus = "OK" /\ h.location = NoLocation)
        /\ h.json => (h.pstatus = "OK" <=> h.location \in Locations)
        /\ h.status # 200 => (~h.json \/ h.pstatus = "OK")}
DetailsOutcomes == {DetailsNetworkError} \cup DetailsResponses

\* Outcome of requests.get on the geocode endpoint (line 284).
GeocodeNotCalled ==
    [kind |-> "none", status |-> 0, json |-> FALSE, pstatus |-> "", results |-> <<>>]
GeocodeNetworkError ==
    [kind |-> "exception", status |-> 0, json |-> FALSE, pstatus |-> "", results |-> <<>>]
GeocodeResponses ==
    {h \in [kind : {"response"}, status : StatusCodes, json : BOOLEAN,
            pstatus : {"OK", "ZERO_RESULTS"},
            results : SeqsUpTo(Locations, MaxResults)] :
        /\ ~h.json => (h.pstatus = "OK" /\ h.results = <<>>)
        /\ h.pstatus # "OK" => h.results = <<>>
        /\ h.status # 200 => (~h.json \/ (h.pstatus = "OK" /\ Len(h.results) = 1))}
GeocodeOutcomes == {GeocodeNetworkError} \cup GeocodeResponses

\* get_place_suggestions, lines 29-52.  raised = TRUE: an exception leaves the function.
get_place_suggestions(user_input, h) ==
    IF user_input = "" THEN [raised |-> FALSE, ret |-> <<>>]
    ELSE IF h.kind = "exception" THEN [raised |-> TRUE, ret |-> <<>>]
    ELSE IF h.status = 200 THEN
        IF ~h.json THEN [raised |-> TRUE, ret |-> <<>>]
        ELSE IF h.pstatus = "OK" THEN
            [raised |-> FALSE,
             ret |-> [i \in DOMAIN h.predictions |->
                        [description |-> h.predictions[i].description,
                         place_id |-> h.predictions[i].place_id]]]
        ELSE [raised |-> FALSE, ret |-> <<>>]
    ELSE [raised |-> FALSE, ret |-> <<>>]

\* get_place_details answering a failed lookup with the zero coordinate, as the
\* geocode fallback does.
get_place_details_ZeroOnFailure(h) ==
    IF h.kind = "exception" THEN
        [raised |-> TRUE, none |-> TRUE, lat |-> 0, lng |-> 0, error |-> FALSE]
    ELSE IF h.status = 200 /\ ~h.json THEN
        [raised |-> TRUE, none |-> TRUE, lat |-> 0, lng |-> 0, error |-> FALSE]
    ELSE IF h.status = 200 /\ h.pstatus = "OK" THEN
        [raised |-> FALSE, none |-> FALSE, lat |-> h.location.lat,
         lng |-> h.location.lng, error |-> FALSE]
    ELSE [raised |-> FALSE, none |-> FALSE, lat |-> 0, lng |-> 0, error |-> TRUE]

\* get_place_details, lines 54-74.  none = TRUE is the return value (None, None);
\* error = TRUE when st.error was called.
get_place_details(h) ==
    IF h.kind = "exception" THEN
        [raised |-> TRUE, none |-> TRUE, lat |-> 0, lng |-> 0, error |-> FALSE]
    ELSE IF h.status = 200 THEN
        IF ~h.json THEN
            [raised |-> TRUE, none |-> TRUE, lat |-> 0, lng |-> 0, error |-> FALSE]
        ELSE IF h.pstatus = "OK" THEN
            [raised |-> FALSE, none |-> FALSE, lat |-> h.location.lat,
             lng |-> h.location.lng, error |-> FALSE]
        ELSE [raised |-> FALSE, none |-> TRUE, lat |-> 0, lng |-> 0, error |-> TRUE]
    ELSE [raised |-> FALSE, none |-> TRUE, lat |-> 0, lng |-> 0, error |-> TRUE]

\* get_lati_longi, lines 278-290.
get_lati_longi(h) ==
    IF h.kind = "exception" THEN [raised |-> TRUE, lat |-> 0, lng |-> 0]
    ELSE IF h.status = 200 THEN
        IF ~h.json THEN [raised |-> TRUE, lat |-> 0, lng |-> 0]
        ELSE IF h.pstatus = "OK" /\ h.results # <<>> THEN
            [raised |-> FALSE, lat |-> h.results[1].lat, lng |-> h.results[1].lng]
        ELSE [raised |-> FALSE, lat |-> 0, lng |-> 0]
    ELSE [raised |-> FALSE, lat |-> 0, lng |-> 0]

\* Line 262: options = {description: place_id}; a repeated description keeps the
\* place_id of its last item.
OptionsPlaceId(suggestions, description) ==
    suggestions[CHOOSE i \in DOMAIN suggestions :
                    /\ suggestions[i].description = description
                    /\ \A j \in DOMAIN suggestions :
                          suggestions[j].description = description => j <= i].place_id

\* Line 263: what st.selectbox("Suggested Locations", list(options.keys())) can report
\* in the run of the submit: any one of the descriptions.
SuggestedLocations(suggestions) ==
    {suggestions[i].description : i \in DOMAIN suggestions}

----------------------------------------------------------------------------
(* Tab 2: star chart *)

\* Lines 306-314: the constellations offered and their identifiers.
constellation_ids ==
    [c \in {"Andromeda", "Aquarius", "Aries", "Cancer", "Capricornus", "Gemini", "Leo",
            "Libra", "Pisces", "Sagittarius", "Scorpius", "Taurus", "Virgo"} |->
        CASE c = "Andromeda" -> "and" [] c = "Aquarius" -> "aqr" [] c = "Aries" -> "ari"
          [] c = "Cancer" -> "cnc" [] c = "Capricornus" -> "cap" [] c = "Gemini" -> "gem"
          [] c = "Leo" -> "leo" [] c = "Libra" -> "lib" [] c = "Pisces" -> "psc"
          [] c = "Sagittarius" -> "sgr" [] c = "Scorpius" -> "sco" [] c = "Taurus" -> "tau"
          [] c = "Virgo" -> "vir"]

\* Constellations the user picks in the runs explored.
Constellations == {"Andromeda", "Virgo"}

ImageUrls == {"https://img/1"}

\* Shape of a JSON value as far as the handlers look at it:
\*   "scalar"    null, true, false or a number (no membership test, no subscript);
\*   "sequence"  a string or an array (membership test, no subscript by a string);
\*   "object"    an object (membership test and subscript by key).
\* A body is undecodable ("not_json") or a JSON value; has_data: the value contains
\* "data" (as key, element or substring); data: the shape of the value under the key
\* "data" of an object; has_url: that value contains "imageUrl".
ImageBodies ==
    {b \in [top : {"not_json", "scalar", "sequence", "object"}, has_data : BOOLEAN,
            data : {"none", "scalar", "sequence", "object"}, has_url : BOOLEAN] :
        /\ b.top \in {"not_json", "scalar"} => ~b.has_data
        /\ (b.top = "object" /\ b.has_data) <=> b.data # "none"
        /\ b.data \in {"none", "scalar"} => ~b.has_url}

NoBody == [top |-> "not_json", has_data |-> FALSE, data |-> "none", has_url |-> FALSE]

\* body["data"]["imageUrl"] is a value of the body.
HoldsImageUrl(b) == b.top = "object" /\ b.data = "object" /\ b.has_url

\* Outcome of a POST to the star-chart or the moon-phase endpoint: the call raises, or
\* returns a status and a body; url is the string under data.imageUrl.
ImageNotCalled == [kind |-> "none", status |-> 0, body |-> NoBody, url |-> ""]
ImageNetworkError == [kind |-> "exception", status |-> 0, body |-> NoBody, url |-> ""]
ImageResponses ==
    {h \in [kind : {"response"}, status : StatusCodes, body : ImageBodies,
            url : ImageUrls \cup {""}] :
        HoldsImageUrl(h.body) <=> (h.url # "")}
ImageOutcomes == {ImageNetworkError} \cup ImageResponses

\* Python's `key in value`: TypeError on a scalar, else whether the value contains key.
Contains(shape, has) ==
    IF shape = "scalar" THEN "TypeError" ELSE IF has THEN "True" ELSE "False"

\* Python's value[key] for a string key: the member of an object that has the key;
\* KeyError on an object without it, TypeError on any other value.
Subscript(shape, has) == shape = "object" /\ has

\* Lines 318-331.
StarPayload(lat, lng, constellation) ==
    [style |-> "inverted",
     observer |-> [latitude |-> lat, longitude |-> lng],
     view |-> [type |-> "constellation",
               parameters |-> [constellation |-> constellation_ids[constellation]]]]

\* The try block of lines 334-344: what is on the page when the handler is done.
\* Line 339 subscripts the body by "data" and the result by "imageUrl"; any exception
\* is reported by line 344.
StarShown(h) ==
    IF h.kind = "exception" THEN {"info", "error"}
    ELSE IF raise_for_status(h.status) THEN {"info", "error"}
    ELSE IF h.body.top = "not_json" THEN {"info", "error"}
    ELSE IF ~Subscript(h.body.top, h.body.has_data) THEN {"info", "error"}
    ELSE IF ~Subscript(h.body.data, h.body.has_url) THEN {"info", "error"}
    ELSE {"info", "image"}

StarImage(h) == IF "image" \in StarShown(h) THEN h.url ELSE ""

NoStarPayload == StarPayload(0, 0, "Andromeda")

----------------------------------------------------------------------------
(* Tab 3: moon phase *)

Formats == {"png", "svg"}
MoonStyles == {"default", "sketch", "shaded"}
BackgroundStyles == {"stars", "solid"}
Orientations == {"north-up", "south-up"}
Colors == {"#000000", "#336699"}

\* Lines 365-368: the colour picker exists only while the background is solid; it
\* starts at "#000000".
PickerValue(backgroundStyle, old) ==
    IF backgroundStyle = "solid"
    THEN (IF old = "None" THEN "#000000" ELSE old)
    ELSE "None"

\* MoonStyleDict with backgroundColor always present (None for a starry background).
MoonStyleDict_AlwaysColor(moonStyle, backgroundStyle, backgroundColor) ==
    [k \in {"moonStyle", "backgroundStyle", "backgroundColor"} |->
        CASE k = "moonStyle" -> moonStyle
          [] k = "backgroundStyle" -> backgroundStyle
          [] k = "backgroundColor" -> backgroundColor]

\* Lines 373-378: the style dict; backgroundColor is merged in for a solid background.
MoonStyleDict(moonStyle, backgroundStyle, backgroundColor) ==
    [k \in {"moonStyle", "backgroundStyle"} \cup
           (IF backgroundStyle = "solid" THEN {"backgroundColor"} ELSE {}) |->
        CASE k = "moonStyle" -> moonStyle
          [] k = "backgroundStyle" -> backgroundStyle
          [] k = "backgroundColor" -> backgroundColor]

\* Lines 371-389.
MoonPayload(format, moonStyle, backgroundStyle, backgroundColor, lat, lng, orientation) ==
    [format |-> format,
     style |-> MoonStyleDict(moonStyle, backgroundStyle, backgroundColor),
     observer |-> [latitude |-> lat, longitude |-> lng],
     view |-> [type |-> "portrait-simple", orientation |-> orientation]]

\* The body the current run builds from the widgets' values.
mp_payload ==
    MoonPayload(mp_format, mp_moonStyle, mp_backgroundStyle, mp_backgroundColor,
                mp_lat.value, mp_lng.value, mp_orientation)

\* The try block of lines 393-402.  Line 397 tests "data" in mp_data and then
\* "imageUrl" in mp_data["data"]; line 398 subscripts mp_data["data"]["imageUrl"].  A
\* test or subscript that raises is reported by line 401; a test that answers False
\* writes the body out raw.
MoonShown(h) ==
    IF h.kind = "exception" THEN {"info", "error"}
    ELSE IF raise_for_status(h.status) THEN {"info", "error"}
    ELSE IF h.body.top = "not_json" THEN {"info", "error"}
    ELSE IF Contains(h.body.top, h.body.has_data) = "TypeError" THEN {"info", "error"}
    ELSE IF Contains(h.body.top, h.body.has_data) = "False" THEN {"info", "raw"}
    ELSE IF ~Subscript(h.body.top, h.body.has_data) THEN {"info", "error"}
    ELSE IF Contains(h.body.data, h.body.has_url) = "TypeError" THEN {"info", "error"}
    ELSE IF Contains(h.body.data, h.body.has_url) = "False" THEN {"info", "raw"}
    ELSE IF ~Subscript(h.body.data, h.body.has_url) THEN {"info", "error"}
    ELSE {"info", "image"}

----------------------------------------------------------------------------
(* Widgets of tabs 2 and 3 whose state outlives a run *)

\* A number input remembers the default it was created with (arg), the value it shows
\* and whether the user typed that value (edited).  live = FALSE: Streamlit holds no
\* state for it (it was not rendered in the last run and its state was discarded).
DeadWidget == [arg |-> 0, value |-> 0, edited |-> FALSE, live |-> FALSE]

FreshWidget(arg) == [arg |-> arg, value |-> arg, edited |-> FALSE, live |-> TRUE]

\* st.number_input(..., value=arg): Streamlit derives a widget's identity from its
\* parameters, the default included; a call with another default is another widget and
\* shows that default.  Where the key alone is the identity of a keyed widget, the
\* widget keeps the value it shows.
number_input(w, arg, keyed) ==
    IF ~w.live THEN FreshWidget(arg)
    ELSE IF keyed /\ key_is_identity THEN [w EXCEPT !.arg = arg]
    ELSE IF w.arg = arg THEN w
    ELSE FreshWidget(arg)

Typed(w, v) == [w EXCEPT !.value = v, !.edited = TRUE]

\* The state of the input called name when a run starts: a run triggered by typing v
\* into the input `which` starts with that value in the widget ("none": no input was
\* typed into).
Reported(w, name, which, v) == IF which = name THEN Typed(w, v) ELSE w

\* RenderInputs with the literal default 0.0 in place of the session's coordinate.
RenderInputs_FixedDefault(which, v) ==
    /\ sc_lat' = number_input(Reported(sc_lat, "sc_lat", which, v), 0, FALSE)
    /\ sc_lng' = number_input(Reported(sc_lng, "sc_lng", which, v), 0, FALSE)
    /\ mp_lat' = number_input(Reported(mp_lat, "mp_lat", which, v), 0, TRUE)
    /\ mp_lng' = number_input(Reported(mp_lng, "mp_lng", which, v), 0, TRUE)

\* Lines 300, 302, 356, 358: the four inputs are rendered with the session's coordinate
\* as default.
RenderInputs(which, v) ==
    /\ sc_lat' = number_input(Reported(sc_lat, "sc_lat", which, v), latitude', FALSE)
    /\ sc_lng' = number_input(Reported(sc_lng, "sc_lng", which, v), longitude', FALSE)
    /\ mp_lat' = number_input(Reported(mp_lat, "mp_lat", which, v), latitude', TRUE)
    /\ mp_lng' = number_input(Reported(mp_lng, "mp_lng", which, v), longitude', TRUE)

\* Lines 362-368: the selectboxes report the user's choices; the colour picker reports
\* the colour picked in this run (color # "None"), else the value it holds.
RenderMoonInputs(format, moonStyle, backgroundStyle, orientation, color) ==
    /\ mp_format' = format
    /\ mp_moonStyle' = moonStyle
    /\ mp_backgroundStyle' = backgroundStyle
    /\ mp_orientation' = orientation
    /\ mp_backgroundColor' =
            IF color # "None" THEN color ELSE PickerValue(backgroundStyle, mp_backgroundColor)

\* A run that ends before line 295 renders none of the inputs: Streamlit either keeps
\* the state the widgets had when the run started or discards it (drop).
SkipInputs(drop, which, v) ==
    /\ sc_lat' = IF drop THEN DeadWidget ELSE Reported(sc_lat, "sc_lat", which, v)
    /\ sc_lng' = IF drop THEN DeadWidget ELSE Reported(sc_lng, "sc_lng", which, v)
    /\ mp_lat' = IF drop THEN DeadWidget ELSE Reported(mp_lat, "mp_lat", which, v)
    /\ mp_lng' = IF drop THEN DeadWidget ELSE Reported(mp_lng, "mp_lng", which, v)

\* The same for the moon-phase selectboxes and colour picker; a discarded selectbox
\* starts again at index 0.
SkipMoonInputs(drop, format, moonStyle, backgroundStyle, orientation, color) ==
    /\ mp_format' = IF drop THEN "png" ELSE format
    /\ mp_moonStyle' = IF drop THEN "default" ELSE moonStyle
    /\ mp_backgroundStyle' = IF drop THEN "stars" ELSE backgroundStyle
    /\ mp_orientation' = IF drop THEN "north-up" ELSE orientation
    /\ mp_backgroundColor' = IF drop THEN "None" ELSE color

\* The rest of a run that an exception ended before line 295.
SkipTabs(which, v) ==
    \E drop \in BOOLEAN :
        /\ SkipInputs(drop, which, v)
        /\ SkipMoonInputs(drop, mp_format, mp_moonStyle, mp_backgroundStyle,
                          mp_orientation, mp_backgroundColor)

\* The rest of a run that reaches the end of the script (lines 295-402), the moon-phase
\* widgets reporting what they held.
RenderTabs(which, v) ==
    /\ RenderInputs(which, v)
    /\ RenderMoonInputs(mp_format, mp_moonStyle, mp_backgroundStyle, mp_orientation, "None")

----------------------------------------------------------------------------
(* Script runs *)

NoDetails == [raised |-> FALSE, none |-> TRUE, lat |-> 0, lng |-> 0, error |-> FALSE]
NoGeocode == [raised |-> FALSE, lat |-> 0, lng |-> 0]

LocOut(op, user_input, sg, dt, gc, suggestions, details, geocode, raised) ==
    [op |-> op, user_input |-> user_input, sugg_http |-> sg, det_http |-> dt,
     geo_http |-> gc, suggestions |-> suggestions, details |-> details,
     geocode |-> geocode, raised |-> raised]

\* Line 260: get_place_suggestions is called in every run in which the text input
\* reports a non-empty text, and only then.
SuggestCalled(user_input, sg) == (user_input = "") <=> (sg = SuggestNotCalled)

\* Lines 258-266 in a run without "Submit Location": the form is built from the text
\* the input reports; an exception of line 260 ends the run.
FormRun(op, user_input, sg) ==
    LET s == get_place_suggestions(user_input, sg)
    IN  LocOut(op, user_input, sg, DetailsNotCalled, GeocodeNotCalled, s.ret,
               NoDetails, NoGeocode, s.raised)

\* The run ended in tab 1 (line 169 or 177), before the form.
FormUnreached ==
    LocOut("unreached", "", SuggestNotCalled, DetailsNotCalled, GeocodeNotCalled,
           <<>>, NoDetails, NoGeocode, FALSE)

\* "Submit Location" (line 266) is on the page if the last run got past line 260.
FormOnPage ==
    /\ loc_out.op # "unreached"
    /\ ~(loc_out.raised /\ loc_out.det_http.kind = "none" /\ loc_out.geo_http.kind = "none")

\* The inputs and buttons of lines 295-402 are on the page if the last run reached them.
TabsOnPage ==
    /\ loc_out.op # "unreached"
    /\ ~loc_out.raised
    /\ sc_lat.live /\ sc_lng.live /\ mp_lat.live /\ mp_lng.live

\* Tabs 2 and 3 of a run in which "Submit Location" is not pressed and no moon-phase
\* widget is changed (lines 245-402 without the button handlers).
IdleTabs(op, which, v, user_input, sg) ==
    /\ SuggestCalled(user_input, sg)
    /\ loc_out' = FormRun(op, user_input, sg)
    /\ UNCHANGED sessionVars
    /\ IF loc_out'.raised THEN SkipTabs(which, v) ELSE RenderTabs(which, v)

\* Tabs 2 and 3 of a run that Part B ended at line 169 or 177.
UnreachedTabs ==
    /\ loc_out' = FormUnreached
    /\ UNCHANGED sessionVars
    /\ SkipTabs("none", 0)

\* A run with the "Get Positions" button pressed (lines 111-154), then Part B, then
\* tabs 2 and 3.  SG: the outcomes the autocomplete request may have.
GetPositions(h, user_input, SG) ==
    /\ planet_pos_df' = StoreTable(planet_pos_df, h)
    /\ pos_out' = [op |-> "get_positions", http |-> PosRecord(h), shown |-> PosShown(h)]
    /\ \E s \in SubjectChoices(planet_pos_df'), slider_raises \in BOOLEAN :
            /\ slider_raises => PartBRaised(RenderPartB(planet_pos_df', s, TRUE))
            /\ pos_view' = RenderPartB(planet_pos_df', s, slider_raises)
    /\ IF PartBRaised(pos_view') THEN UnreachedTabs
       ELSE \E sg \in SG \cup {SuggestNotCalled} :
                IdleTabs("rerun", "none", 0, user_input, sg)
    /\ UNCHANGED <<key_is_identity, star_out, moon_out>>

\* A run triggered by choosing another center body in the selectbox.
SelectCenter(s, user_input, SG) ==
    /\ planet_pos_df.present /\ planet_pos_df.rows # <<>>
    /\ s \in NameSet(planet_pos_df.rows)
    /\ pos_out' = [op |-> "rerun", http |-> NoHttp, shown |-> {}]
    /\ \E slider_raises \in BOOLEAN :
            /\ slider_raises => PartBRaised(RenderPartB(planet_pos_df, s, TRUE))
            /\ pos_view' = RenderPartB(planet_pos_df, s, slider_raises)
    /\ IF PartBRaised(pos_view') THEN UnreachedTabs
       ELSE \E sg \in SG \cup {SuggestNotCalled} :
                IdleTabs("rerun", "none", 0, user_input, sg)
    /\ UNCHANGED <<planet_pos_df, key_is_identity, star_out, moon_out>>

\* Lines 268-275: the suggestion the selectbox reports is looked up in options; its
\* place id is stored, then resolved.
SubmitSelected(user_input, sg, suggestions, DT) ==
    \E selected_description \in SuggestedLocations(suggestions), dt \in DT :
        LET place_id == OptionsPlaceId(suggestions, selected_description)
            d == get_place_details(dt)
        IN  /\ selected_place_id' = place_id
            /\ loc_out' = LocOut("submit", user_input, sg, dt, GeocodeNotCalled,
                                 suggestions, d, NoGeocode, d.raised)
            /\ IF d.raised THEN
                    /\ UNCHANGED <<latitude, longitude>>
                    /\ SkipTabs("none", 0)
               ELSE
                    /\ latitude' = IF ~d.none THEN d.lat ELSE latitude
                    /\ longitude' = IF ~d.none THEN d.lng ELSE longitude
                    /\ RenderTabs("none", 0)

\* Lines 276-293: no suggestion to select; the typed text is geocoded.
SubmitFallback(user_input, sg, GC) ==
    \E gc \in GC :
        LET g == get_lati_longi(gc)
        IN  /\ loc_out' = LocOut("submit", user_input, sg, DetailsNotCalled, gc,
                                 <<>>, NoDetails, g, g.raised)
            /\ UNCHANGED selected_place_id
            /\ IF g.raised THEN
                    /\ UNCHANGED <<latitude, longitude>>
                    /\ SkipTabs("none", 0)
               ELSE
                    /\ latitude' = g.lat
                    /\ longitude' = g.lng
                    /\ RenderTabs("none", 0)

\* A run with "Submit Location" pressed (lines 258-293), then the rest of the script.
\* SG, DT and GC are the outcomes the three provider calls may have.
SubmitLocation(user_input, SG, DT, GC) ==
    /\ FormOnPage
    /\ \E sg \in SG \cup {SuggestNotCalled} :
        /\ SuggestCalled(user_input, sg)
        /\ LET s == get_place_suggestions(user_input, sg)
           IN  IF s.raised THEN
                    /\ loc_out' = LocOut("submit", user_input, sg, DetailsNotCalled,
                                         GeocodeNotCalled, <<>>, NoDetails, NoGeocode, TRUE)
                    /\ UNCHANGED sessionVars
                    /\ SkipTabs("none", 0)
               ELSE IF s.ret # <<>> THEN SubmitSelected(user_input, sg, s.ret, DT)
               ELSE SubmitFallback(user_input, sg, GC)
    /\ UNCHANGED <<posVars, key_is_identity, star_out, moon_out>>

\* A run triggered by the user typing the number v into one of the four inputs.
EditInput(which, v, user_input, SG) ==
    /\ TabsOnPage
    /\ \E sg \in SG \cup {SuggestNotCalled} :
            IdleTabs("edit", which, v, user_input, sg)
    /\ UNCHANGED <<posVars, key_is_identity, star_out, moon_out>>

\* A run triggered by any other interaction (the date or time inputs of tab 1, the
\* constellation selectbox): nothing is submitted, the page is rebuilt.
Rerun(user_input, SG) ==
    /\ IF PartBRaised(pos_view) THEN UnreachedTabs
       ELSE \E sg \in SG \cup {SuggestNotCalled} :
                IdleTabs("rerun", "none", 0, user_input, sg)
    /\ UNCHANGED <<posVars, key_is_identity, star_out, moon_out>>

\* A run with "Generate Star Map" pressed (lines 317-344): the handler runs if the form
\* above it did not end the run, and reads the inputs of lines 300 and 302.
GenerateStarMap(constellation, h, user_input, SG) ==
    /\ TabsOnPage
    /\ \E sg \in SG \cup {SuggestNotCalled} :
            IdleTabs("rerun", "none", 0, user_input, sg)
    /\ star_out' =
            IF loc_out'.raised THEN star_out
            ELSE [op |-> "generate", http |-> h,
                  request |-> StarPayload(sc_lat'.value, sc_lng'.value, constellation),
                  shown |-> StarShown(h), image |-> StarImage(h)]
    /\ UNCHANGED <<posVars, key_is_identity, moon_out>>

\* A run triggered by changing one of the moon-phase selectboxes or picking a colour
\* (color # "None"; the picker is on the page while the background is solid).
SetMoonOptions(format, moonStyle, backgroundStyle, orientation, color, user_input, SG) ==
    /\ TabsOnPage
    /\ color # "None" => (mp_backgroundStyle = "solid" /\ backgroundStyle = "solid")
    /\ \E sg \in SG \cup {SuggestNotCalled} :
        /\ SuggestCalled(user_input, sg)
        /\ loc_out' = FormRun("rerun", user_input, sg)
    /\ UNCHANGED sessionVars
    /\ IF loc_out'.raised THEN
            \E drop \in BOOLEAN :
                /\ SkipInputs(drop, "none", 0)
                /\ SkipMoonInputs(drop, format, moonStyle, backgroundStyle, orientation,
                                  IF color # "None" THEN color ELSE mp_backgroundColor)
       ELSE /\ RenderInputs("none", 0)
            /\ RenderMoonInputs(format, moonStyle, backgroundStyle, orientation, color)
    /\ moon_out' = IF loc_out'.raised THEN moon_out
                   ELSE [op |-> "rerun", http |-> ImageNotCalled, shown |-> {}]
    /\ UNCHANGED <<posVars, key_is_identity, star_out>>

\* A run with "Get Moon Phase" pressed (lines 391-402); the body posted is mp_payload.
\* The handler runs if the form did not end the run.
GetMoonPhase(h, user_input, SG) ==
    /\ TabsOnPage
    /\ \E sg \in SG \cup {SuggestNotCalled} :
            IdleTabs("rerun", "none", 0, user_input, sg)
    /\ moon_out' =
            IF loc_out'.raised THEN moon_out
            ELSE [op |-> "get_moon_phase", http |-> h, shown |-> MoonShown(h)]
    /\ UNCHANGED <<posVars, key_is_identity, star_out>>

----------------------------------------------------------------------------
(* Initial state and specifications *)

InitPos ==
    /\ planet_pos_df = NoTable
    /\ pos_out = [op |-> "start", http |-> NoHttp, shown |-> {}]
    /\ pos_view = RenderPartB(NoTable, "", FALSE)

\* The state after the first run of the script: lines 250-255 put the zero coordinate
\* and no place id into the session, the text input is empty, and the inputs show the
\* default.
InitLoc ==
    /\ latitude = 0
    /\ longitude = 0
    /\ selected_place_id = "None"
    /\ key_is_identity \in BOOLEAN
    /\ sc_lat = FreshWidget(0)
    /\ sc_lng = FreshWidget(0)
    /\ mp_lat = FreshWidget(0)
    /\ mp_lng = FreshWidget(0)
    /\ loc_out = FormRun("start", "", SuggestNotCalled)
    /\ star_out = [op |-> "start", http |-> ImageNotCalled, request |-> NoStarPayload,
                   shown |-> {}, image |-> ""]

\* The selectboxes start at index 0; the colour picker is not rendered.
InitMoon ==
    /\ mp_format = "png"
    /\ mp_moonStyle = "default"
    /\ mp_backgroundStyle = "stars"
    /\ mp_orientation = "north-up"
    /\ mp_backgroundColor = "None"
    /\ moon_out = [op |-> "start", http |-> ImageNotCalled, shown |-> {}]

Init == InitPos /\ InitLoc /\ InitMoon

\* Autocomplete outcomes that end a run (the call raises, the body does not decode)
\* and the shortest ones that do not.
IdleSuggest ==
    {h \in SuggestOutcomes :
        \/ h.kind = "exception"
        \/ h.status = 200 /\ h.pstatus = "OK" /\ Len(h.predictions) <= 1}

\* The positions tab, the text input of the location form left empty.
NextPos ==
    \/ \E h \in PosOutcomes : GetPositions(h, "", {})
    \/ \E s \in Names : SelectCenter(s, "", {})

SpecPos == Init /\ [][NextPos]_vars

\* The location form under every provider outcome.
NextLoc ==
    \/ \E u \in UserInputs :
            SubmitLocation(u, SuggestOutcomes, DetailsOutcomes, GeocodeOutcomes)
    \/ \E u \in UserInputs : Rerun(u, SuggestOutcomes)

SpecLoc == Init /\ [][NextLoc]_vars

\* The location form together with edits of the prefilled inputs; the providers answer
\* with status 200 or not at all.
PrefillSuggest == {h \in SuggestOutcomes : h.status # 200 => h.kind = "exception"}
PrefillDetails == {h \in DetailsOutcomes : h.status # 200 => h.kind = "exception"}
PrefillGeocode == {h \in GeocodeOutcomes : h.status # 200 => h.kind = "exception"}

NextPrefill ==
    \/ \E u \in UserInputs :
            SubmitLocation(u, PrefillSuggest, PrefillDetails, PrefillGeocode)
    \/ \E w \in {"sc_lat", "sc_lng", "mp_lat", "mp_lng"}, v \in EditValues,
          u \in UserInputs : EditInput(w, v, u, IdleSuggest)
    \/ \E u \in UserInputs : Rerun(u, IdleSuggest)

SpecPrefill == Init /\ [][NextPrefill]_vars

\* The star-chart handler, with edits of the coordinate inputs it reads; the
\* autocomplete request of a run either is not made or raises.
NextStar ==
    \/ \E c \in Constellations, h \in ImageOutcomes, u \in UserInputs :
            GenerateStarMap(c, h, u, {SuggestNetworkError})
    \/ \E w \in {"sc_lat", "sc_lng"}, v \in EditValues, u \in UserInputs :
            EditInput(w, v, u, {SuggestNetworkError})
    \/ \E u \in UserInputs : Rerun(u, {SuggestNetworkError})

SpecStar == Init /\ [][NextStar]_vars

\* The moon-phase tab; the autocomplete request of a run either is not made or raises.
NextMoon ==
    \/ \E f \in Formats, m \in MoonStyles, b \in BackgroundStyles, o \in Orientations,
          c \in Colors \cup {"None"}, u \in UserInputs :
            SetMoonOptions(f, m, b, o, c, u, {SuggestNetworkError})
    \/ \E h \in ImageOutcomes, u \in UserInputs : GetMoonPhase(h, u, {SuggestNetworkError})
    \/ \E w \in {"mp_lat", "mp_lng"}, v \in EditValues, u \in UserInputs :
            EditInput(w, v, u, {SuggestNetworkError})
    \/ \E u \in UserInputs : Rerun(u, {SuggestNetworkError})

SpecMoon == Init /\ [][NextMoon]_vars

----------------------------------------------------------------------------
(* Properties *)

\* A positions fetch succeeded as the claim counts it: a 2xx response whose body parses
\* and whose rows can all be read.
C1_Success(h) ==
    /\ h.kind = "response"
    /\ h.status \in 200..299
    /\ h.json
    /\ h.readable

C1_Transform(h) ==
    [i \in DOMAIN h.rows |-> [name |-> h.rows[i].name, dist_au |-> h.rows[i].au]]

C1_Step ==
    IF pos_out'.op = "get_positions" /\ C1_Success(pos_out'.http)
    THEN planet_pos_df' = [present |-> TRUE, rows |-> C1_Transform(pos_out'.http)]
    ELSE planet_pos_df' = planet_pos_df

\* C1: no table is stored at the start; a successful "Get Positions" replaces the stored
\* table by the transform of that fetch alone, and every other run (a failed fetch
\* included) leaves the stored table as it was.
C1_TableIsLastSuccessfulFetch ==
    planet_pos_df = NoTable /\ [][C1_Step]_vars

C2_Center(rows, subject) ==
    CHOOSE c \in DOMAIN rows :
        /\ rows[c].name = subject
        /\ \A j \in DOMAIN rows : rows[j].name = subject => c <= j

C2_NonNegative(x) == x.k = "inf" \/ (x.k = "num" /\ x.v >= 0)

\* The difference of a and b is a number or an infinity (not NaN).
C2_DifferenceDefined(a, b) ==
    /\ a.k # "nan" /\ b.k # "nan"
    /\ ~(a.k = b.k /\ a.k \in {"inf", "ninf"})

\* x equals |a - b|; nothing equals NaN.
C2_IsAbsDifference(x, a, b) ==
    /\ C2_DifferenceDefined(a, b)
    /\ IF a.k = "num" /\ b.k = "num"
       THEN x.k = "num" /\ (x.v = a.v - b.v \/ x.v = b.v - a.v)
       ELSE x.k = "inf"

\* C2 as stated: whenever the relative distances were computed (the plot was rendered,
\* or the slider that follows the computation raised) the rows named as the center
\* have relative distance 0, and every other row has a non-negative relative distance
\* equal to the absolute difference of its distance and the center's.
C2_RelativeDistance ==
    pos_view.kind \in {"plot", "slider_exception"} =>
        LET rows == planet_pos_df.rows
            rel == pos_view.relative_au
            c == C2_Center(rows, pos_view.subject)
        IN  /\ pos_view.subject \in NameSet(rows)
            /\ DOMAIN rel = DOMAIN rows
            /\ rel[c] = Num(0)
            /\ \A i \in DOMAIN rows :
                  IF rows[i].name = pos_view.subject THEN rel[i] = Num(0)
                  ELSE /\ C2_NonNegative(rel[i])
                       /\ C2_IsAbsDifference(rel[i], rows[i].dist_au, rows[c].dist_au)

\* C2 amended: whenever the relative distances were computed the rows named as the
\* center have relative distance 0; every other row whose difference to the center is
\* defined (no NaN distance, not two equal infinities) has a non-negative relative
\* distance equal to the absolute difference, and every other row has NaN.
C2_RelativeDistanceWhereDefined ==
    pos_view.kind \in {"plot", "slider_exception"} =>
        LET rows == planet_pos_df.rows
            rel == pos_view.relative_au
            c == C2_Center(rows, pos_view.subject)
        IN  /\ pos_view.subject \in NameSet(rows)
            /\ DOMAIN rel = DOMAIN rows
            /\ rel[c] = Num(0)
            /\ \A i \in DOMAIN rows :
                  IF rows[i].name = pos_view.subject THEN rel[i] = Num(0)
                  ELSE IF C2_DifferenceDefined(rows[i].dist_au, rows[c].dist_au)
                  THEN /\ C2_NonNegative(rel[i])
                       /\ C2_IsAbsDifference(rel[i], rows[i].dist_au, rows[c].dist_au)
                  ELSE rel[i].k = "nan"

\* A plot centered on a body that is farther from Earth than another row, both
\* distances finite.
C2_Witness ==
    /\ pos_view.kind = "plot"
    /\ \E i \in DOMAIN planet_pos_df.rows :
          LET d == planet_pos_df.rows[i].dist_au
              c == planet_pos_df.rows[C2_Center(planet_pos_df.rows, pos_view.subject)].dist_au
          IN  /\ planet_pos_df.rows[i].name # pos_view.subject
              /\ d.k = "num" /\ c.k = "num" /\ d.v < c.v
              /\ pos_view.relative_au[i].k = "num"
              /\ pos_view.relative_au[i].v = c.v - d.v

\* C3: the moon-phase body built from the widgets holds backgroundColor exactly when
\* its backgroundStyle is "solid".
C3_BackgroundColorIffSolid ==
    ("backgroundColor" \in DOMAIN mp_payload.style)
        <=> (mp_payload.style["backgroundStyle"] = "solid")

\* A body for a solid background with a picked colour, in svg.
C3_Witness ==
    /\ mp_payload.format = "svg"
    /\ mp_payload.style["backgroundStyle"] = "solid"
    /\ "backgroundColor" \in DOMAIN mp_payload.style
    /\ mp_payload.style["backgroundColor"] = "#336699"

C4_GeocodeFailed(h) ==
    ~(h.kind = "response" /\ h.status = 200 /\ h.json /\ h.pstatus = "OK"
        /\ h.results # <<>>)

\* C4: whenever the geocode fallback ran, no exception left it, and if the lookup failed
\* (a network exception included) it returned (0.0, 0.0) and the session holds (0.0, 0.0).
C4_GeocodeFallbackNeverRaises ==
    (loc_out.op = "submit" /\ loc_out.geo_http.kind # "none") =>
        /\ ~loc_out.raised
        /\ C4_GeocodeFailed(loc_out.geo_http) =>
              /\ loc_out.geocode.lat = 0 /\ loc_out.geocode.lng = 0
              /\ latitude = 0 /\ longitude = 0

C5_SuggestRaised ==
    /\ loc_out.raised
    /\ loc_out.det_http.kind = "none"
    /\ loc_out.geo_http.kind = "none"

\* C5: in every run get_place_suggestions never raises; it returns [] for empty input, a non-200
\* status or a provider status other than OK, and for 200 with OK one
\* {description, place_id} entry per prediction, in provider order.
C5_SuggestFailsOpen ==
    LET h == loc_out.sugg_http
    IN  /\ ~C5_SuggestRaised
        /\ IF /\ loc_out.user_input # ""
              /\ h.kind = "response" /\ h.status = 200 /\ h.json /\ h.pstatus = "OK"
           THEN /\ Len(loc_out.suggestions) = Len(h.predictions)
                /\ \A i \in DOMAIN h.predictions :
                      loc_out.suggestions[i] =
                          [description |-> h.predictions[i].description,
                           place_id |-> h.predictions[i].place_id]
           ELSE loc_out.suggestions = <<>>

C6_DetailsFailed(h) ==
    /\ h.kind = "response"
    /\ h.status # 200 \/ (h.json /\ h.pstatus # "OK")

C6_Step ==
    (loc_out'.op = "submit" /\ C6_DetailsFailed(loc_out'.det_http)) =>
        /\ loc_out'.details.error
        /\ loc_out'.details.none
        /\ ~loc_out'.raised
        /\ latitude' = latitude
        /\ longitude' = longitude

\* C6: a submit whose place-details lookup fails (non-200 status, or a provider status
\* other than OK) shows an error, yields no coordinate, and leaves the session's
\* latitude and longitude as they were.
C6_FailedResolveKeepsCoordinate == [][C6_Step]_vars

\* A lookup answered ZERO_RESULTS while the session holds a coordinate resolved earlier.
C6_Witness ==
    /\ loc_out.op = "submit"
    /\ loc_out.det_http.status = 200
    /\ loc_out.det_http.pstatus = "ZERO_RESULTS"
    /\ loc_out.details.none
    /\ latitude = 35 /\ longitude = 139

C7_HasImageUrl(h) ==
    h.kind = "response" /\ h.status \in 200..299 /\ HoldsImageUrl(h.body)

\* C7: "Generate Star Map" renders the image exactly when the POST returned 2xx and the
\* body holds data.imageUrl; otherwise it shows an error and no image.
C7_ImageOnlyOnSuccess ==
    star_out.op = "generate" =>
        /\ ("image" \in star_out.shown) <=> C7_HasImageUrl(star_out.http)
        /\ C7_HasImageUrl(star_out.http) => star_out.image = star_out.http.url
        /\ ~C7_HasImageUrl(star_out.http) =>
              ("error" \in star_out.shown /\ star_out.image = "")

C8_Completed == loc_out'.op \in {"submit", "rerun"} /\ ~loc_out'.raised

C8_Kept(w, w2) == (w.live /\ w.edited) => (w2.value = w.value)

C8_Resolved == latitude # 0 \/ longitude # 0

\* C8 as stated: with a resolved coordinate in the session, once the user has edited an
\* input, no completed rerun or location submit replaces the value the input shows.
C8_EditNeverOverwritten ==
    [][(C8_Resolved /\ C8_Completed) =>
        /\ C8_Kept(sc_lat, sc_lat') /\ C8_Kept(sc_lng, sc_lng')
        /\ C8_Kept(mp_lat, mp_lat') /\ C8_Kept(mp_lng, mp_lng')]_vars

\* What an input prefilled from a stored coordinate shows after a completed run: the
\* stored coordinate if that changed in the run (or the input had no state), else what
\* it showed before.
C8_Prefilled(w, w2, old, new) ==
    w2.value = IF ~w.live \/ new # old THEN new ELSE w.value

C8_KeyedInput(w, w2, old, new) ==
    IF key_is_identity
    THEN w2.value = IF ~w.live THEN new ELSE w.value
    ELSE C8_Prefilled(w, w2, old, new)

\* C8 amended: after a completed run the star-chart inputs show the stored coordinate
\* whenever the run changed it, the user's edit notwithstanding, and keep what they
\* showed when it did not; the keyed moon-phase inputs do the same unless the key alone
\* identifies them, in which case they keep what they showed.
C8_PrefillFollowsStoredCoordinate ==
    [][C8_Completed =>
        /\ C8_Prefilled(sc_lat, sc_lat', latitude, latitude')
        /\ C8_Prefilled(sc_lng, sc_lng', longitude, longitude')
        /\ C8_KeyedInput(mp_lat, mp_lat', latitude, latitude')
        /\ C8_KeyedInput(mp_lng, mp_lng', longitude, longitude')]_vars

\* A submit resolved the coordinate the session already held: the edited latitude
\* input still shows the user's value, the untouched longitude input the prefill.
C8_Witness ==
    /\ loc_out.op = "submit" /\ ~loc_out.raised
    /\ latitude = 1 /\ longitude = 103
    /\ sc_lat.edited /\ sc_lat.value = 7
    /\ ~sc_lng.edited /\ sc_lng.value = 103

\* C9: with no table stored, or a stored table of zero rows, the positions view shows
\* the empty-state message and does not raise.
C9_EmptyStateForMissingOrEmptyTable ==
    (~planet_pos_df.present \/ planet_pos_df.rows = <<>>) =>
        pos_view.kind = "empty_state"

\* C10: for every table st.slider is called for, the slider's lower bound does not
\* exceed its upper bound and its default lies between them.
C10_ZoomRangeWellFormed ==
    pos_view.kind \in {"plot", "slider_exception"} =>
        /\ FLe(pos_view.slider.min_value, pos_view.slider.max_value)
        /\ FLe(pos_view.slider.min_value, pos_view.slider.value)
        /\ FLe(pos_view.slider.value, pos_view.slider.max_value)
====
